---- MODULE Spec2Model ----
(***************************************************************************)
(* Model of coauthgraph (src/coauthgraph/coauthgraph.py): the Name         *)
(* constructor, process_bibtex, render_to_json and main.                   *)
(*                                                                         *)
(* A Python str is modelled as a sequence of one-character strings, so     *)
(* that str.split, str.strip, str.replace and indexing are computed the    *)
(* way the interpreter computes them.                                      *)
(***************************************************************************)
EXTENDS Integers, Sequences, FiniteSets, TLC

VARIABLES
    pc,              \* position of the program
    entries,         \* bib_database.entries: a sequence of field mappings
    entry_index,     \* 1-based position of the for loop over the entries
    all_authors,     \* process_bibtex: all_authors
    edges,           \* process_bibtex: edges
    paper_authors,   \* process_bibtex: paper_authors after list(...)
    author1_index,   \* process_bibtex: outer pair loop index (0-based)
    author2_index,   \* process_bibtex: inner pair loop index (0-based)
    edge_iter,       \* the order in which the set "edges" is iterated
    edge_pos,        \* 1-based position of the render loops in edge_iter
    seen_authors,    \* render_to_json: seen_authors
    id,              \* render_to_json: id
    stdout,          \* the lines printed so far
    string,          \* argument of the Name constructor
    name,            \* outcome of the Name constructor
    run,             \* which run of process_bibtex this is (1 or 2)
    first_result     \* what the first run returned

vars == <<pc, entries, entry_index, all_authors, edges, paper_authors,
          author1_index, author2_index, edge_iter, edge_pos, seen_authors,
          id, stdout, string, name, run, first_result>>

(***************************************************************************)
(* Bounds                                                                  *)
(***************************************************************************)
MaxEntries == 2
MaxLen == 5

(***************************************************************************)
(* Python str operations                                                   *)
(***************************************************************************)
\* str.strip() removes these from both ends
Whitespace == {" ", "\n", "\t"}

\* code points, for the comparison of str values
Ord == [c \in {"\t", "\n", " ", ",", "A", "B", "C", "L", "N", "P",
               "a", "b", "d", "e", "g", "n", "o", "p"} |->
          CASE c = "\t" -> 9   [] c = "\n" -> 10  [] c = " " -> 32
            [] c = "," -> 44   [] c = "A" -> 65   [] c = "B" -> 66
            [] c = "C" -> 67   [] c = "L" -> 76   [] c = "N" -> 78
            [] c = "P" -> 80   [] c = "a" -> 97   [] c = "b" -> 98
            [] c = "d" -> 100  [] c = "e" -> 101  [] c = "g" -> 103
            [] c = "n" -> 110  [] c = "o" -> 111  [] c = "p" -> 112]

IsPrefix(p, s) ==
    /\ Len(p) <= Len(s)
    /\ \A k \in 1..Len(p) : s[k] = p[k]

Drop(s, n) == SubSeq(s, n + 1, Len(s))

\* s.split(sep), scanning left to right for non-overlapping occurrences;
\* cur is the field being accumulated
RECURSIVE SplitFrom(_, _, _)
SplitFrom(s, sep, cur) ==
    IF Len(s) < Len(sep) THEN <<cur \o s>>
    ELSE IF IsPrefix(sep, s)
         THEN <<cur>> \o SplitFrom(Drop(s, Len(sep)), sep, <<>>)
         ELSE SplitFrom(Tail(s), sep, Append(cur, Head(s)))

Split(s, sep) == SplitFrom(s, sep, <<>>)

RECURSIVE LStrip(_)
LStrip(s) ==
    IF s # <<>> /\ Head(s) \in Whitespace THEN LStrip(Tail(s)) ELSE s

RECURSIVE RStrip(_)
RStrip(s) ==
    IF s # <<>> /\ s[Len(s)] \in Whitespace
    THEN RStrip(SubSeq(s, 1, Len(s) - 1)) ELSE s

Strip(s) == RStrip(LStrip(s))

\* s.replace(old, new) for one-character old and new
Replace(s, old, new) == [k \in 1..Len(s) |-> IF s[k] = old THEN new ELSE s[k]]

\* str < str
RECURSIVE StrLt(_, _)
StrLt(s, t) ==
    IF t = <<>> THEN FALSE
    ELSE IF s = <<>> THEN TRUE
    ELSE IF Ord[Head(s)] < Ord[Head(t)] THEN TRUE
    ELSE IF Ord[Head(s)] > Ord[Head(t)] THEN FALSE
    ELSE StrLt(Tail(s), Tail(t))

(***************************************************************************)
(* class Name                                                              *)
(***************************************************************************)
CommaSpace == <<",", " ">>

\* fields = string.split(', ')
Fields(s) == Split(s, CommaSpace)

\* first_name[0] raises IndexError when first_name is empty
NameRaises(s) == Len(Fields(s)) = 2 /\ Fields(s)[2] = <<>>

NameLast(s) ==
    IF Len(Fields(s)) > 1 THEN Strip(Fields(s)[1]) ELSE Strip(s)

NameFirst(s) ==
    IF Len(Fields(s)) = 2 THEN <<Fields(s)[2][1]>> ELSE <<>>

\* Name.__init__ when it returns
Name(s) == [last |-> NameLast(s), first |-> NameFirst(s)]

\* Name.__str__
Str(n) == IF n.first # <<>> THEN n.first \o <<" ">> \o n.last ELSE n.last

\* Name.__lt__: (self.last, self.first) < (other.last, other.first)
NameLt(a, b) ==
    \/ StrLt(a.last, b.last)
    \/ a.last = b.last /\ StrLt(a.first, b.first)

(***************************************************************************)
(* Input: the entries bibtexparser.load returns, each a mapping from field *)
(* names to text.  An entry with no author field has no "author" key.      *)
(***************************************************************************)
Pope == <<"P", "o", "p", "e">>
PopeB == Pope \o <<",", " ", "B">>
PopeSpB == Pope \o <<",", " ", " ", "B">>
LeeA == <<"L", "e", "e", ",", " ", "A">>
NgC == <<"N", "g", ",", " ", "C">>
BPope == <<"B", " ">> \o Pope
PopeComma == Pope \o <<",", " ">>
And == <<" ", "a", "n", "d", " ">>
NlAnd == <<"\n", "a", "n", "d", " ">>

AuthorFields ==
    { PopeB \o And \o LeeA,
      LeeA \o NlAnd \o PopeB,
      NgC \o And \o PopeB \o And \o LeeA,
      NgC \o And \o NgC,
      NgC \o And \o LeeA,
      Pope,
      PopeB \o And \o PopeSpB,
      BPope \o And \o PopeB,
      PopeComma \o And \o LeeA }

EntryPool ==
    {[author |-> f] : f \in AuthorFields} \cup {[title |-> <<"a">>]}

RECURSIVE SeqsOfLen(_, _)
SeqsOfLen(S, n) ==
    IF n = 0 THEN {<<>>}
    ELSE {Append(s, x) : s \in SeqsOfLen(S, n - 1), x \in S}

EntryLists == UNION {SeqsOfLen(EntryPool, n) : n \in 0..MaxEntries}

\* the orders in which a set may be iterated
Orders(S) ==
    {f \in [1..Cardinality(S) -> S] : \A x \in S : \E k \in DOMAIN f : f[k] = x}

Range(f) == {f[k] : k \in DOMAIN f}

(***************************************************************************)
(* process_bibtex                                                          *)
(***************************************************************************)
\* author_list.replace('\n', ' ') then author_list.split(' and ')
AuthorStrings(author_list) == Split(Replace(author_list, "\n", " "), And)

\* [Name(name.strip()) for name in author_list.split(' and ')]
AuthorsNames(author_list) ==
    [k \in DOMAIN AuthorStrings(author_list) |->
        Name(Strip(AuthorStrings(author_list)[k]))]

AnyNameRaises(author_list) ==
    \E k \in DOMAIN AuthorStrings(author_list) :
        NameRaises(Strip(AuthorStrings(author_list)[k]))

\* paper_authors is kept as a list, so a name listed twice stays twice
PaperAuthorLists_NoSet(names) == {names}

\* lines 132, 137, 139: the names are added to the set paper_authors, and
\* list(paper_authors) lists the set in some order
PaperAuthorLists(names) == Orders(Range(names))

\* all_authors is assigned afresh for each entry
AddAllAuthors_Reset(authors, names) == Range(names)

\* line 138: all_authors.add(name) for every name of the entry
AddAllAuthors(authors, names) == authors \cup Range(names)

\* the pair is stored in list order, unsorted
SortedPair_Unsorted(a, b) == <<a, b>>

\* tuple(sorted([a, b])): the sort is stable and compares with Name.__lt__
SortedPair(a, b) == IF NameLt(b, a) THEN <<b, a>> ELSE <<a, b>>

\* the inner range starts one too far
InnerStart_Skip(i) == i + 2

\* range(author1_index + 1, len(paper_authors)) starts here
InnerStart(i) == i + 1

\* an entry with no author field is skipped
MissingAuthor_Skip ==
    /\ pc = "entries"
    /\ entry_index <= Len(entries)
    /\ "author" \notin DOMAIN entries[entry_index]
    /\ entry_index' = entry_index + 1
    /\ UNCHANGED <<pc, entries, all_authors, edges, paper_authors,
                   author1_index, author2_index, edge_iter, edge_pos,
                   seen_authors, id, stdout, string, name, run, first_result>>

\* entry['author'] raises KeyError: the exception leaves process_bibtex and main
MissingAuthor ==
    /\ pc = "entries"
    /\ entry_index <= Len(entries)
    /\ "author" \notin DOMAIN entries[entry_index]
    /\ pc' = "aborted"
    /\ UNCHANGED <<entries, entry_index, all_authors, edges, paper_authors,
                   author1_index, author2_index, edge_iter, edge_pos,
                   seen_authors, id, stdout, string, name, run, first_result>>

\* lines 132-139: the names of the entry are parsed, added to all_authors and
\* to the set paper_authors, which is then turned into a list in some order
ReadAuthors ==
    /\ pc = "entries"
    /\ entry_index <= Len(entries)
    /\ "author" \in DOMAIN entries[entry_index]
    /\ LET author_list == entries[entry_index].author
       IN IF AnyNameRaises(author_list)
          THEN /\ pc' = "aborted"
               /\ UNCHANGED <<all_authors, paper_authors, author1_index,
                              author2_index>>
          ELSE LET authors_names == AuthorsNames(author_list)
               IN /\ all_authors' = AddAllAuthors(all_authors, authors_names)
                  /\ paper_authors' \in PaperAuthorLists(authors_names)
                  /\ author1_index' = 0
                  /\ author2_index' = InnerStart(0)
                  /\ pc' = "pairs"
    /\ UNCHANGED <<entries, entry_index, edges, edge_iter, edge_pos,
                   seen_authors, id, stdout, string, name, run, first_result>>

\* lines 142-143: one iteration of the inner loop
AddEdge ==
    /\ pc = "pairs"
    /\ author1_index < Len(paper_authors)
    /\ author2_index < Len(paper_authors)
    /\ edges' = edges \cup {SortedPair(paper_authors[author1_index + 1],
                                       paper_authors[author2_index + 1])}
    /\ author2_index' = author2_index + 1
    /\ UNCHANGED <<pc, entries, entry_index, all_authors, paper_authors,
                   author1_index, edge_iter, edge_pos, seen_authors, id,
                   stdout, string, name, run, first_result>>

\* the inner loop is exhausted: next iteration of the outer loop
NextAuthor1 ==
    /\ pc = "pairs"
    /\ author1_index < Len(paper_authors)
    /\ author2_index >= Len(paper_authors)
    /\ author1_index' = author1_index + 1
    /\ author2_index' = InnerStart(author1_index + 1)
    /\ UNCHANGED <<pc, entries, entry_index, all_authors, edges,
                   paper_authors, edge_iter, edge_pos, seen_authors, id,
                   stdout, string, name, run, first_result>>

\* the outer loop is exhausted: next entry
NextEntry ==
    /\ pc = "pairs"
    /\ author1_index >= Len(paper_authors)
    /\ entry_index' = entry_index + 1
    /\ pc' = "entries"
    /\ UNCHANGED <<entries, all_authors, edges, paper_authors, author1_index,
                   author2_index, edge_iter, edge_pos, seen_authors, id,
                   stdout, string, name, run, first_result>>

\* line 144: return all_authors, edges
Return ==
    /\ pc = "entries"
    /\ entry_index > Len(entries)
    /\ pc' = "returned"
    /\ UNCHANGED <<entries, entry_index, all_authors, edges, paper_authors,
                   author1_index, author2_index, edge_iter, edge_pos,
                   seen_authors, id, stdout, string, name, run, first_result>>

ProcessBibtex ==
    \/ MissingAuthor
    \/ ReadAuthors
    \/ AddEdge
    \/ NextAuthor1
    \/ NextEntry
    \/ Return

(***************************************************************************)
(* render_to_json                                                          *)
(***************************************************************************)
TargetSurname == Pope

\* both ends are required to be the target
Included_Both(edge) == edge[1].last = TargetSurname /\ edge[2].last = TargetSurname

\* author1.last == 'Pope' or author2.last == 'Pope'
Included(edge) == edge[1].last = TargetSurname \/ edge[2].last = TargetSurname

\* the line printed for a node; author is the Name the text was made from
NodeFragment(author) == [kind |-> "node", id |-> Str(author), author |-> author]

\* the line printed for an edge; edge is the pair the text was made from
EdgeFragment(n, edge) ==
    [kind |-> "edge", id |-> n, source |-> Str(edge[1]),
     target |-> Str(edge[2]), edge |-> edge]

\* seen_authors is not consulted
NodeLines_NoSeen(seen, edge) == <<NodeFragment(edge[1]), NodeFragment(edge[2])>>

\* lines 154-159: the node lines one iteration of the first loop prints
NodeLines(seen, edge) ==
    (IF edge[1] \notin seen THEN <<NodeFragment(edge[1])>> ELSE <<>>)
    \o (IF edge[2] \notin seen \cup {edge[1]}
        THEN <<NodeFragment(edge[2])>> ELSE <<>>)

\* main calls render_to_json with what process_bibtex returned; the set edges
\* is iterated in one order, the same in both loops as it is not modified
RenderStart ==
    /\ pc = "returned"
    /\ edge_iter' \in Orders(edges)
    /\ seen_authors' = {}
    /\ edge_pos' = 1
    /\ pc' = "nodes"
    /\ UNCHANGED <<entries, entry_index, all_authors, edges, paper_authors,
                   author1_index, author2_index, id, stdout, string, name,
                   run, first_result>>

\* one iteration of the first loop
RenderNodes ==
    /\ pc = "nodes"
    /\ edge_pos <= Len(edge_iter)
    /\ LET edge == edge_iter[edge_pos]
       IN IF Included(edge)
          THEN /\ stdout' = stdout \o NodeLines(seen_authors, edge)
               /\ seen_authors' = seen_authors \cup {edge[1], edge[2]}
          ELSE UNCHANGED <<stdout, seen_authors>>
    /\ edge_pos' = edge_pos + 1
    /\ UNCHANGED <<pc, entries, entry_index, all_authors, edges,
                   paper_authors, author1_index, author2_index, edge_iter,
                   id, string, name, run, first_result>>

\* line 161: id = 0, and the second loop starts
RenderEdgesStart ==
    /\ pc = "nodes"
    /\ edge_pos > Len(edge_iter)
    /\ id' = 0
    /\ edge_pos' = 1
    /\ pc' = "edgelines"
    /\ UNCHANGED <<entries, entry_index, all_authors, edges, paper_authors,
                   author1_index, author2_index, edge_iter, seen_authors,
                   stdout, string, name, run, first_result>>

\* one iteration of the second loop
RenderEdges ==
    /\ pc = "edgelines"
    /\ edge_pos <= Len(edge_iter)
    /\ LET edge == edge_iter[edge_pos]
       IN IF Included(edge)
          THEN /\ stdout' = Append(stdout, EdgeFragment(id, edge))
               /\ id' = id + 1
          ELSE UNCHANGED <<stdout, id>>
    /\ edge_pos' = edge_pos + 1
    /\ UNCHANGED <<pc, entries, entry_index, all_authors, edges,
                   paper_authors, author1_index, author2_index, edge_iter,
                   seen_authors, string, name, run, first_result>>

\* render_to_json and main return
RenderDone ==
    /\ pc = "edgelines"
    /\ edge_pos > Len(edge_iter)
    /\ pc' = "done"
    /\ UNCHANGED <<entries, entry_index, all_authors, edges, paper_authors,
                   author1_index, author2_index, edge_iter, edge_pos,
                   seen_authors, id, stdout, string, name, run, first_result>>

RenderToJson ==
    \/ RenderStart
    \/ RenderNodes
    \/ RenderEdgesStart
    \/ RenderEdges
    \/ RenderDone

(***************************************************************************)
(* main: process_bibtex, then render_to_json                               *)
(***************************************************************************)
Init ==
    /\ pc = "entries"
    /\ entries \in EntryLists
    /\ entry_index = 1
    /\ all_authors = {}
    /\ edges = {}
    /\ paper_authors = <<>>
    /\ author1_index = 0
    /\ author2_index = 0
    /\ edge_iter = <<>>
    /\ edge_pos = 1
    /\ seen_authors = {}
    /\ id = 0
    /\ stdout = <<>>
    /\ string = <<>>
    /\ name = [exc |-> "unset"]
    /\ run = 1
    /\ first_result = <<>>

Next == ProcessBibtex \/ RenderToJson

Spec == Init /\ [][Next]_vars

(***************************************************************************)
(* process_bibtex called a second time, on a rearrangement of the input of *)
(* the first call, to compare what the two calls return                    *)
(***************************************************************************)
RECURSIVE Join(_, _)
Join(parts, sep) ==
    IF Len(parts) = 0 THEN <<>>
    ELSE IF Len(parts) = 1 THEN parts[1]
    ELSE parts[1] \o sep \o Join(Tail(parts), sep)

Permuted(s) == {[k \in DOMAIN s |-> s[p[k]]] : p \in Orders(DOMAIN s)}

\* the entries in another order
EntriesPermuted(es) == Permuted(es)

\* one entry once more
EntryRepeated(es) == {Append(es, es[k]) : k \in DOMAIN es}

\* the authors of one entry in another order
AuthorsPermuted(es) ==
    {[es EXCEPT ![k] = [author |-> Join(parts, And)]] :
        <<k, parts>> \in UNION {{k} \X Permuted(AuthorStrings(es[k].author)) :
            k \in {j \in DOMAIN es : "author" \in DOMAIN es[j]}}}

Rearranged(es) == EntriesPermuted(es) \cup EntryRepeated(es) \cup AuthorsPermuted(es)

SecondCall ==
    /\ pc = "returned"
    /\ run = 1
    /\ first_result' = <<all_authors, edges>>
    /\ entries' \in Rearranged(entries)
    /\ run' = 2
    /\ pc' = "entries"
    /\ entry_index' = 1
    /\ all_authors' = {}
    /\ edges' = {}
    /\ paper_authors' = <<>>
    /\ author1_index' = 0
    /\ author2_index' = 0
    /\ UNCHANGED <<edge_iter, edge_pos, seen_authors, id, stdout, string, name>>

NextDet == ProcessBibtex \/ SecondCall

SpecDet == Init /\ [][NextDet]_vars

(***************************************************************************)
(* The Name constructor applied to arbitrary strings                       *)
(***************************************************************************)
NameAlphabet == {"P", "b", ",", " "}

RECURSIVE StringsOfLen(_)
StringsOfLen(n) ==
    IF n = 0 THEN {<<>>}
    ELSE {Append(s, c) : s \in StringsOfLen(n - 1), c \in NameAlphabet}

Strings == UNION {StringsOfLen(n) : n \in 0..MaxLen}

NoName == [exc |-> "unset"]

Construct ==
    /\ pc = "construct"
    /\ name' = IF NameRaises(string)
               THEN [exc |-> "IndexError"]
               ELSE [exc |-> "none", value |-> Name(string)]
    /\ pc' = "constructed"
    /\ UNCHANGED <<entries, entry_index, all_authors, edges, paper_authors,
                   author1_index, author2_index, edge_iter, edge_pos,
                   seen_authors, id, stdout, string, run, first_result>>

InitName ==
    /\ pc = "construct"
    /\ string \in Strings
    /\ name = NoName
    /\ entries = <<>>
    /\ entry_index = 1
    /\ all_authors = {}
    /\ edges = {}
    /\ paper_authors = <<>>
    /\ author1_index = 0
    /\ author2_index = 0
    /\ edge_iter = <<>>
    /\ edge_pos = 1
    /\ seen_authors = {}
    /\ id = 0
    /\ stdout = <<>>
    /\ run = 1
    /\ first_result = <<>>

NextName == Construct

SpecName == InitName /\ [][NextName]_vars

(***************************************************************************)
(* Properties                                                              *)
(***************************************************************************)
HasAuthor(e) == "author" \in DOMAIN e

\* the Names an entry's author list contains after normalization
NamesOf(e) == Range(AuthorsNames(e.author))

\* the entries process_bibtex has finished with when it is between entries
Processed == 1..(entry_index - 1)

Shared(a, b) == \E k \in Processed : {a, b} \subseteq NamesOf(entries[k])

\* C1: whenever process_bibtex is between two entries or has returned, the
\* edge set is exactly the co-authorship relation of the entries processed so
\* far: two distinct Names are joined (in one order or the other) iff some
\* processed entry lists both, every edge joins two distinct Names that share
\* a processed entry, and so an entry with k distinct authors has all its
\* C(k,2) pairs in the edge set.
C1_EdgesAreCoauthorship ==
    pc \in {"entries", "returned"} =>
        /\ \A a, b \in all_authors :
              a # b => ((<<a, b>> \in edges \/ <<b, a>> \in edges) <=> Shared(a, b))
        /\ \A e \in edges :
              /\ e[1] # e[2]
              /\ {e[1], e[2]} \subseteq all_authors
              /\ Shared(e[1], e[2])
        /\ \A k \in Processed :
              LET n == Cardinality(NamesOf(entries[k]))
              IN Cardinality({e \in edges : {e[1], e[2]} \subseteq NamesOf(entries[k])})
                    = (n * (n - 1)) \div 2

\* a three-author entry has been processed and contributed its three pairs
C1_Witness ==
    /\ pc = "returned"
    /\ \E k \in DOMAIN entries : Cardinality(NamesOf(entries[k])) = 3
    /\ Cardinality(edges) >= 3

\* C2: in every state, every edge is a pair strictly ordered by the Name
\* ordering on (last, first), the edge built for (A,B) is the edge built for
\* (B,A), and no edge joins a Name to itself.
C2_EdgesCanonical ==
    /\ \A e \in edges :
          /\ Len(e) = 2
          /\ NameLt(e[1], e[2])
          /\ ~NameLt(e[2], e[1])
          /\ e[1] # e[2]
          /\ <<e[2], e[1]>> \notin edges
    /\ \A a, b \in all_authors :
          a # b => SortedPair(a, b) = SortedPair(b, a)

\* an entry that lists the same author twice has been processed, and so has
\* an entry that contributed an edge
C2_Witness ==
    /\ pc = "returned"
    /\ edges # {}
    /\ \E k \in DOMAIN entries :
          LET names == AuthorsNames(entries[k].author)
          IN \E i, j \in DOMAIN names : i < j /\ names[i] = names[j]

\* C3: the second call of process_bibtex, on the entries of the first call
\* in another order, with one entry repeated, or with the authors of one entry
\* in another order, returns the author set and the edge set the first call
\* returned, whatever order the sets were listed in.
C3_Deterministic ==
    (run = 2 /\ pc = "returned") => <<all_authors, edges>> = first_result

\* the same two-author entry has been processed twice and left one edge
C3_Witness ==
    /\ run = 2
    /\ pc = "returned"
    /\ Len(entries) = 2
    /\ entries[1] = entries[2]
    /\ Cardinality(NamesOf(entries[1])) = 2
    /\ Cardinality(edges) = 1
    /\ first_result[2] = edges

\* the fields the construction rule speaks of
RuleFields == Split(string, CommaSpace)

\* C4: for every input string the Name constructor returns the Name of the
\* three-case rule: with exactly 2 fields, last is the first field trimmed and
\* first is the first character of the second field; with 1 field, last is
\* the whole string trimmed and first is empty; with more than 2 fields, last
\* is the first field trimmed and first is empty.
C4_ThreeCaseRule ==
    pc = "constructed" =>
        /\ name.exc = "none"
        /\ Len(RuleFields) = 2 =>
              /\ name.value.last = Strip(RuleFields[1])
              /\ name.value.first = SubSeq(RuleFields[2], 1, 1)
        /\ Len(RuleFields) = 1 =>
              /\ name.value.last = Strip(string)
              /\ name.value.first = <<>>
        /\ Len(RuleFields) > 2 =>
              /\ name.value.last = Strip(RuleFields[1])
              /\ name.value.first = <<>>

\* C5: for every input string the Name constructor returns normally, with a
\* first of zero or one character.
C5_NeverRaises ==
    pc = "constructed" =>
        /\ name.exc = "none"
        /\ Len(name.value.first) <= 1

\* C6: for every input string the constructor accepts, last has no leading or
\* trailing whitespace and first, when non-empty, is not a whitespace
\* character.
C6_FieldsTrimmed ==
    (pc = "constructed" /\ name.exc = "none") =>
        /\ name.value.last = Strip(name.value.last)
        /\ \A k \in DOMAIN name.value.first : name.value.first[k] \notin Whitespace

\* the edge lines printed so far, in the order printed
EdgeLines == SelectSeq(stdout, LAMBDA line : line.kind = "edge")

\* the node lines printed so far, in the order printed
NodeLinesPrinted == SelectSeq(stdout, LAMBDA line : line.kind = "node")

TouchesTarget(e) == e[1].last = Pope \/ e[2].last = Pope

\* C7: the edge lines are lines of distinct edges of the edge set that have
\* an endpoint whose last is "Pope", they carry the ids 0, 1, 2, ... in the
\* order printed, and when rendering is done every such edge has exactly one
\* line, so the ids are 0..n-1 for the n included edges.
C7_EdgeLines ==
    /\ \A k \in DOMAIN EdgeLines :
          /\ EdgeLines[k].id = k - 1
          /\ EdgeLines[k].edge \in edges
          /\ TouchesTarget(EdgeLines[k].edge)
          /\ EdgeLines[k].source = Str(EdgeLines[k].edge[1])
          /\ EdgeLines[k].target = Str(EdgeLines[k].edge[2])
    /\ \A k, m \in DOMAIN EdgeLines :
          EdgeLines[k].edge = EdgeLines[m].edge => k = m
    /\ pc = "done" =>
          /\ \A e \in edges :
                TouchesTarget(e) => \E k \in DOMAIN EdgeLines : EdgeLines[k].edge = e
          /\ Len(EdgeLines) = Cardinality({e \in edges : TouchesTarget(e)})

\* rendering is done with an edge left out and two edges printed
C7_Witness ==
    /\ pc = "done"
    /\ \E e \in edges : ~TouchesTarget(e)
    /\ Len(EdgeLines) >= 2
    /\ EdgeLines[2].id = 1

\* C8: every node line precedes every edge line, no Name has two node
\* lines, every Name with a node line is an endpoint of an included edge,
\* the source and the target of every edge line are declared by an earlier
\* node line, and when rendering is done the Names with a node line are
\* exactly the endpoints of the included edges.
C8_NodesBeforeEdges ==
    /\ \A i, j \in DOMAIN stdout :
          (stdout[i].kind = "node" /\ stdout[j].kind = "edge") => i < j
    /\ \A i, j \in DOMAIN NodeLinesPrinted :
          NodeLinesPrinted[i].author = NodeLinesPrinted[j].author => i = j
    /\ \A i \in DOMAIN NodeLinesPrinted :
          /\ NodeLinesPrinted[i].id = Str(NodeLinesPrinted[i].author)
          /\ \E e \in edges :
                TouchesTarget(e) /\ NodeLinesPrinted[i].author \in {e[1], e[2]}
    /\ \A j \in DOMAIN stdout :
          stdout[j].kind = "edge" =>
              /\ \E i \in 1..(j - 1) :
                    /\ stdout[i].kind = "node"
                    /\ stdout[i].author = stdout[j].edge[1]
                    /\ stdout[i].id = stdout[j].source
              /\ \E i \in 1..(j - 1) :
                    /\ stdout[i].kind = "node"
                    /\ stdout[i].author = stdout[j].edge[2]
                    /\ stdout[i].id = stdout[j].target
    /\ pc \in {"edgelines", "done"} =>
          {NodeLinesPrinted[i].author : i \in DOMAIN NodeLinesPrinted}
              = UNION {{e[1], e[2]} : e \in {d \in edges : TouchesTarget(d)}}

\* rendering is done, a Name on two included edges has one node line, and a
\* Name on no included edge has none
C8_Witness ==
    /\ pc = "done"
    /\ Len(EdgeLines) >= 2
    /\ Len(NodeLinesPrinted) < 2 * Len(EdgeLines)
    /\ \E a \in all_authors :
          \A i \in DOMAIN NodeLinesPrinted : NodeLinesPrinted[i].author # a

\* C9: if some entry of the input has no author field, nothing is ever
\* printed and rendering never starts; the run ends aborted.
C9_AllOrNothing ==
    (\E k \in DOMAIN entries : ~HasAuthor(entries[k])) =>
        /\ stdout = <<>>
        /\ pc \in {"entries", "pairs", "aborted"}
        /\ (pc = "entries" /\ entry_index <= Len(entries)) \/ pc \in {"pairs", "aborted"}

\* the run aborted on its second entry with an edge to "Pope" already built
C9_Witness ==
    /\ pc = "aborted"
    /\ entry_index = 2
    /\ \E e \in edges : TouchesTarget(e)
    /\ stdout = <<>>

EndpointsAreAuthors == \A e \in edges : {e[1], e[2]} \subseteq all_authors

\* C10: in every state both endpoints of every edge are in all_authors, and
\* no step removes an author or an edge.
C10_EndpointsAndGrowth ==
    /\ []EndpointsAreAuthors
    /\ [][all_authors \subseteq all_authors' /\ edges \subseteq edges']_vars

\* a second entry has been processed and added authors and edges to those of
\* the first
C10_Witness ==
    /\ pc = "returned"
    /\ entry_index = 3
    /\ NamesOf(entries[1]) # NamesOf(entries[2])
    /\ \E e \in edges : ~({e[1], e[2]} \subseteq NamesOf(entries[2]))
    /\ \E e \in edges : ~({e[1], e[2]} \subseteq NamesOf(entries[1]))

====
